---- MODULE Spec2Model ----
(***************************************************************************)
(* The contract-deployment command of the extension                        *)
(* (TruffleCommands.deployContracts and its helpers) run under tryExecute. *)
(* Every await of the command is a step of its own, which may end in a     *)
(* rejection; while the command waits, other command callbacks run and     *)
(* change the service tree and the truffle configuration.                  *)
(*                                                                         *)
(* Strings whose characters matter (URLs) are sequences of one-character   *)
(* strings; labels and names are plain strings.  Calls to the editor host  *)
(* and to external tools are recorded, in order, in the history variable   *)
(* log; their outcomes (which the code only awaits) are chosen by \E.      *)
(***************************************************************************)
EXTENDS Integers, Sequences, FiniteSets, TLC

VARIABLES
  pc,                \* position of the running command
  config,            \* networks of truffle-config.js, in file order
  tree,              \* TreeManager.getItems(): services -> projects -> children
  dests,             \* the destinations built for the first quick pick
  command,           \* the destination the user selected
  cmd,               \* the bound function being executed (command.cmd)
  err,               \* the exception in flight: "none", "cancel", "error"
  log,               \* calls made to the host and to external tools, in order
  deployDestination, \* the array createNewDeploymentService fills
  queue,             \* pending promise continuations (microtasks), FIFO
  pending,           \* nodes whose getRPCAddress waits for input/output
  shown2,            \* items handed to the second quick pick
  project,           \* the project ServiceCommands.connectProject returned
  mnemonics,         \* MnemonicRepository: the stored mnemonics, by path
  mnemonicItem,      \* the item selected in the mnemonic quick pick
  clipboard,         \* what vscodeEnvironment.writeToClipboard last wrote
  calls              \* other command invocations in flight, in invocation order

vars == <<pc, config, tree, dests, command, cmd, err, log,
          deployDestination, queue, pending, shown2, project,
          mnemonics, mnemonicItem, clipboard, calls>>

\* The state of the clipboard commands, which the deployment leaves alone.
keyVars == <<mnemonics, mnemonicItem, clipboard, calls>>

-----------------------------------------------------------------------------
(* Bounds of the model *)

MaxNets == 1
MaxServices == 2
MaxRpcTicks == 1
MaxContracts == 2
MaxMnemonics == 2
MaxCalls == 1

-----------------------------------------------------------------------------
(* ItemType *)

MEMBER == 11
AZURE_BLOCKCHAIN_NETWORK_NODE == 22
LOCAL_NETWORK_NODE == 32

(* Constants.defaultLocalhostPort *)
defaultLocalhostPort == 8545

-----------------------------------------------------------------------------
(* Strings as character sequences *)

Digits == <<"0", "1", "2", "3", "4", "5", "6", "7", "8", "9">>

RECURSIVE NumToStr(_)
\* String(n) for a non-negative integer, as ':' + options.port builds it.
NumToStr(n) ==
  IF n < 10 THEN <<Digits[n + 1]>>
  ELSE NumToStr(n \div 10) \o <<Digits[(n % 10) + 1]>>

\* The description of a destination that has none (the property is absent).
Undefined == <<"undefined">>

\* The text a template literal gives for a value that is undefined.
UndefinedText == <<"u", "n", "d", "e", "f", "i", "n", "e", "d">>

\* The characters U+2028 (line separator) and U+2029 (paragraph separator).
LineSeparator == "\\u2028"
ParagraphSeparator == "\\u2029"

\* A regular-expression element that matches any character but a line end:
\* without the s flag '.' excludes LF, CR, U+2028 and U+2029.
AnyChar == "ANY"
LineTerminators == {"\n", "\r", LineSeparator, ParagraphSeparator}

ElemMatches(e, c) ==
  IF e = AnyChar THEN c \notin LineTerminators ELSE c = e

MatchesAt(s, re, i) ==
  /\ i + Len(re) - 1 <= Len(s)
  /\ \A j \in 1..Len(re) : ElemMatches(re[j], s[i + j - 1])

\* url.match(re) is non-null: some substring of s matches re.
RegExpMatch(s, re) == \E i \in 1..Len(s) : MatchesAt(s, re, i)

\* new RegExp(`127\.0\.0\.1\:${port}`, 'g'): inside a template literal the
\* escapes \. and \: yield the bare characters, so the pattern text is
\* 127.0.0.1:8545 and each dot of it matches any character.
localGanacheRegexp ==
  <<"1", "2", "7", AnyChar, "0", AnyChar, "0", AnyChar, "1", ":">>
    \o NumToStr(defaultLocalhostPort)

-----------------------------------------------------------------------------
(* Network identifiers: number | string.  isNumber tells the JS type, text  *)
(* the value as written.                                                    *)

NumId(t) == [isNumber |-> TRUE, text |-> t]
StrId(t) == [isNumber |-> FALSE, text |-> t]

\* networkId === 1 || networkId === '1'
IsMainNetworkId(networkId) ==
  \/ networkId.isNumber /\ networkId.text = "1"
  \/ ~networkId.isNumber /\ networkId.text = "1"

-----------------------------------------------------------------------------
(* Tree items.  A child of a project is a NetworkNode exactly when it is an *)
(* Azure or a local network node; a LocalNetworkNode is a NetworkNode.      *)

IsNetworkNode(child) ==
  child.itemType \in {AZURE_BLOCKCHAIN_NETWORK_NODE, LOCAL_NETWORK_NODE}

IsLocalNetworkNode(child) == child.itemType = LOCAL_NETWORK_NODE

Item(itemType, label, port, networkId, rpc, truffleName) ==
  [itemType |-> itemType, label |-> label, port |-> port,
   networkId |-> networkId, rpc |-> rpc, truffleName |-> truffleName]

\* The networkNode argument of a bound function that takes none.
NoNode == Item(0, "", 0, StrId(""), <<>>, "")

-----------------------------------------------------------------------------
(* Bound functions (fn.bind(undefined, ...)) and destinations *)

Bind(fn, name, url, node) ==
  [fn |-> fn, name |-> name, url |-> url, node |-> node]

NoCmd == Bind("", "", <<>>, NoNode)

Destination(c, description, detail, label, networkId) ==
  [cmd |-> c, description |-> description, detail |-> detail,
   label |-> label, networkId |-> networkId]

NoDestination == Destination(NoCmd, Undefined, "", "", StrId(""))

RECURSIVE Flatten(_)
\* reduce((res, x) => { res.push(...x); return res; }, [])
Flatten(seqs) ==
  IF seqs = <<>> THEN <<>> ELSE Head(seqs) \o Flatten(Tail(seqs))

\* xs.filter(child => child instanceof NetworkNode)
FilterNetworkNodes(xs) == SelectSeq(xs, IsNetworkNode)

getDefaultDeployDestinations ==
  << Destination(Bind("createNewDeploymentService", "", <<>>, NoNode),
                 Undefined, "", "createProject", StrId("*")) >>

\* `${provider ? provider.url : ''}` || `${host ? host : ''}${port ? ':' + port : ''}`
\* providerUrl = Undefined stands for a provider that has no url property:
\* the template literal turns it into the text 'undefined', which is truthy.
NetworkUrl(options) ==
  LET fromProvider == IF ~options.hasProvider THEN <<>>
                      ELSE IF options.providerUrl = Undefined THEN UndefinedText
                      ELSE options.providerUrl
      fromHost == (IF options.host # <<>> THEN options.host ELSE <<>>)
                    \o (IF options.port # 0
                        THEN <<":">> \o NumToStr(options.port) ELSE <<>>)
  IN  IF fromProvider # <<>> THEN fromProvider ELSE fromHost

getTruffleDeployFunction(url, name, networkId) ==
  IF RegExpMatch(url, localGanacheRegexp)
    THEN Bind("deployToLocalGanache", name, url, NoNode)
  ELSE IF IsMainNetworkId(networkId)
    THEN Bind("deployToMainNetwork", name, <<>>, NoNode)
  ELSE Bind("deployToNetwork", name, <<>>, NoNode)

TruffleDestination(network) ==
  LET url == NetworkUrl(network.options)
  IN  Destination(
        getTruffleDeployFunction(url, network.name, network.options.network_id),
        url, "From truffle-config.js", network.name,
        network.options.network_id)

getTruffleDeployDestinations(networksFromConfig) ==
  [i \in 1..Len(networksFromConfig) |->
     TruffleDestination(networksFromConfig[i])]

getServiceCreateFunction(networkNode) ==
  IF IsLocalNetworkNode(networkNode) /\ networkNode.port = defaultLocalhostPort
    THEN Bind("createLocalGanacheNetwork", "", <<>>, networkNode)
    ELSE Bind("createNetwork", "", <<>>, networkNode)

TreeDestination(c, network) ==
  Destination(c, network.rpc, "Tree Item", network.label, network.networkId)

getTreeDeployDestinationsNoFilter(services) ==
  LET projects == Flatten(services)
      networks == Flatten(projects)
  IN  [i \in 1..Len(networks) |->
         TreeDestination(getServiceCreateFunction(networks[i]), networks[i])]

getTreeDeployDestinations(services) ==
  LET projects == Flatten(services)
      networks == Flatten([i \in 1..Len(projects) |->
                             FilterNetworkNodes(projects[i])])
  IN  [i \in 1..Len(networks) |->
         TreeDestination(getServiceCreateFunction(networks[i]), networks[i])]

\* deployDestinations.filter(() => true)
UniqueDestinations(deployDestinations) ==
  SelectSeq(deployDestinations, LAMBDA d : TRUE)

DeployDestinations(networksFromConfig, services) ==
  UniqueDestinations(getDefaultDeployDestinations
                       \o getTruffleDeployDestinations(networksFromConfig)
                       \o getTreeDeployDestinations(services))

-----------------------------------------------------------------------------
(* Inputs: the truffle configuration and the persisted tree *)

Chars127 == <<"1", "2", "7", ".", "0", ".", "0", ".", "1">>
CharsDashed == <<"1", "2", "7", "-", "0", "-", "0", "-", "1">>
CharsHttp == <<"h", "t", "t", "p", ":", "/", "/">>
CharsMainIo == <<"m", "a", "i", "n", ".", "i", "o">>
CharsAbsIo == <<"a", "b", "s", ".", "i", "o">>

Network(name, hasProvider, providerUrl, host, port, networkId) ==
  [name |-> name,
   options |-> [hasProvider |-> hasProvider, providerUrl |-> providerUrl,
                host |-> host, port |-> port, network_id |-> networkId]]

\* Networks a truffle-config.js may hold, in file order.
NetworkPool ==
  << Network("development", FALSE, <<>>, Chars127, defaultLocalhostPort, StrId("*")),
     Network("fork", TRUE, CharsHttp \o Chars127 \o <<":">> \o NumToStr(defaultLocalhostPort),
             <<>>, 0, NumId("1")),
     Network("mainnet", TRUE, CharsHttp \o CharsMainIo, <<>>, 0, NumId("1")),
     Network("live", TRUE, <<>>, CharsMainIo, 443, StrId("1")),
     Network("ropsten", TRUE, Undefined, CharsAbsIo, 0, NumId("3")),
     Network("docker", FALSE, <<>>, CharsDashed, defaultLocalhostPort, NumId("1")) >>

MemberItem == Item(MEMBER, "member", 0, StrId(""), <<>>, "")
AzureNode ==
  Item(AZURE_BLOCKCHAIN_NETWORK_NODE, "abs-node", 0, StrId("*"),
       CharsHttp \o CharsAbsIo, "abs_node")
LocalNode ==
  Item(LOCAL_NETWORK_NODE, "local", defaultLocalhostPort, StrId("*"),
       CharsHttp \o Chars127 \o <<":">> \o NumToStr(defaultLocalhostPort),
       "development")

\* Projects ServiceCommands.connectProject may return.
ProjectPool ==
  { <<MemberItem>>, <<MemberItem, LocalNode>>, <<LocalNode, AzureNode>> }

\* Services the persisted tree may hold, in tree order.
ServicePool ==
  << << <<MemberItem, AzureNode>>, <<LocalNode>> >>,
     << <<MemberItem>>, <<LocalNode, MemberItem, AzureNode>> >> >>

\* The subsequences of pool with at most n elements, order kept.
SubSeqs(pool, n) ==
  { [i \in 1..Cardinality(S) |->
       pool[CHOOSE k \in S : Cardinality({j \in S : j < k}) = i - 1]] :
    S \in {T \in SUBSET (1..Len(pool)) : Cardinality(T) <= n} }

-----------------------------------------------------------------------------
(* The log of calls to the host and to external tools *)

Call(ev, arg) == [ev |-> ev, arg |-> arg]

Logged(ev) == \E i \in 1..Len(log) : log[i].ev = ev

-----------------------------------------------------------------------------
(* Mnemonics, quick pick items and the clipboard *)

\* Texts a stored mnemonic file may hold; "" is a file without text.
MnemonicTexts == {"", "gravity top burden", "not a mnemonic"}

\* { detail: mnemonicPath, extended: savedMnemonic }; the path is the place
\* of the mnemonic in the repository.
QuickPickItem(mnemonicPath, savedMnemonic) ==
  [detail |-> mnemonicPath, extended |-> savedMnemonic]

\* mnemonicItem before the quick pick returns.
NoItem == QuickPickItem(0, "")

\* getExistedMnemonicPaths().map(path => ({... getMnemonic(path) ...}))
MnemonicItems(stored) ==
  [i \in 1..Len(stored) |-> QuickPickItem(i, stored[i])]

\* The clipboard before anything was written to it.
NoClip == <<>>

\* childKey.privateKey.toString('hex') of the key derived from the mnemonic.
PrivateKey(mnemonic) == <<"privateKey", mnemonic>>

-----------------------------------------------------------------------------
(* State after activation, before the command is invoked *)

Init ==
  /\ pc = "idle"
  /\ config \in SubSeqs(NetworkPool, MaxNets)
  /\ tree \in SubSeqs(ServicePool, MaxServices)
  /\ dests = <<>>
  /\ command = NoDestination
  /\ cmd = NoCmd
  /\ err = "none"
  /\ log = <<>>
  /\ deployDestination = <<>>
  /\ queue = <<>>
  /\ pending = {}
  /\ shown2 = <<>>
  /\ project = <<>>
  /\ mnemonics = <<>>
  /\ mnemonicItem = NoItem
  /\ clipboard = NoClip
  /\ calls = <<>>

-----------------------------------------------------------------------------
(* tryExecute(() => TruffleCommands.deployContracts()) *)

Throw(kind) == /\ err' = kind
               /\ pc' = "catch"

\* deployContracts is invoked.  getTruffleConfigUri and the parse of the
\* configuration may throw; otherwise the default and the configuration
\* destinations are built, getTreeDeployDestinations reads the tree, asks
\* every NetworkNode for its address and the command waits for the answers.
\* dests holds what the three builders have read.
DeployContracts ==
  /\ pc = "idle"
  /\ \E outcome \in {"read", "getTruffleConfigUri", "getNetworks"} :
       IF outcome = "read"
         THEN /\ dests' = DeployDestinations(config, tree)
              /\ log' = Append(log, Call("commandStarted", ""))
              /\ pc' = "getTreeDeployDestinations"
              /\ err' = err
         ELSE /\ dests' = dests
              /\ log' = log \o << Call("commandStarted", ""), Call(outcome, "failed") >>
              /\ Throw("error")
  /\ UNCHANGED <<keyVars, config, tree, command, cmd, deployDestination, queue, pending,
                 shown2, project>>

\* await getTreeDeployDestinations(...) has settled: a rejected getRPCAddress
\* reaches tryExecute; otherwise the three lists are merged, filtered by the
\* callback that keeps everything, and handed to the quick pick.
ShowDestinations ==
  /\ pc = "getTreeDeployDestinations"
  /\ \E resolved \in BOOLEAN :
       IF resolved
         THEN /\ log' = Append(log, Call("showQuickPick", ""))
              /\ pc' = "pick"
              /\ err' = err
         ELSE /\ \E i \in 1..Len(dests) : dests[i].detail = "Tree Item"
              /\ log' = Append(log, Call("getRPCAddress", "failed"))
              /\ Throw("error")
  /\ UNCHANGED <<keyVars, config, tree, dests, command, cmd, deployDestination, queue,
                 pending, shown2, project>>

\* The user selects the i-th destination: the selectedDestination event is
\* sent and the command calls required.checkAppsSilent(truffle) and waits.
\* The list is not used after the quick pick and is dropped.
PickDestination ==
  /\ pc = "pick"
  /\ \E i \in 1..Len(dests) :
       /\ command' = dests[i]
       /\ log' = Append(log, Call("selectedDestination", dests[i].label))
  /\ dests' = <<>>
  /\ pc' = "checkTruffle"
  /\ UNCHANGED <<keyVars, config, tree, cmd, err, deployDestination, queue, pending,
                 shown2, project>>

\* The user dismisses the quick pick: showQuickPick raises a CancellationEvent.
CancelPick ==
  /\ pc = "pick"
  /\ Throw("cancel")
  /\ dests' = <<>>
  /\ UNCHANGED <<keyVars, config, tree, command, cmd, log, deployDestination,
                 queue, pending, shown2, project>>

\* One await of the command has settled: the call ev answered with one of
\* outcomes, the answers in onward lead to the position next, the answers in
\* aside to the position other, every other answer is a rejection that
\* reaches tryExecute.
Settled(at, ev, outcomes, onward, next, aside, other) ==
  /\ pc = at
  /\ \E outcome \in outcomes :
       /\ log' = Append(log, Call(ev, outcome))
       /\ IF outcome \in onward THEN pc' = next /\ err' = err
          ELSE IF outcome \in aside THEN pc' = other /\ err' = err
          ELSE Throw("error")
  /\ UNCHANGED <<keyVars, config, tree, dests, command, cmd, deployDestination, queue, pending,
                 shown2, project>>

\* if (!await required.checkAppsSilent(truffle)): present, the command asks
\* isHdWalletProviderRequired; missing, it calls installTruffle.
CheckTruffle ==
  Settled("checkTruffle", "checkAppsSilent", {"present", "missing", "failed"},
          {"present"}, "checkHdWallet", {"missing"}, "installTruffle")

\* await required.installTruffle(Scope.locally)
installTruffle ==
  Settled("installTruffle", "installTruffle", {"installed", "failed"},
          {"installed"}, "checkHdWallet", {}, "")

\* if (await required.isHdWalletProviderRequired() && ...): when required the
\* command asks checkHdWalletProviderVersion, otherwise it validates.
CheckHdWallet ==
  Settled("checkHdWallet", "isHdWalletProviderRequired", {"yes", "no", "failed"},
          {"no"}, "validate", {"yes"}, "checkHdWalletProviderVersion")

\* ... && !(await required.checkHdWalletProviderVersion()): outdated, the
\* command calls installTruffleHdWalletProvider.
checkHdWalletProviderVersion ==
  Settled("checkHdWalletProviderVersion", "checkHdWalletProviderVersion",
          {"ok", "outdated", "failed"},
          {"ok"}, "validate", {"outdated"}, "installTruffleHdWalletProvider")

\* await required.installTruffleHdWalletProvider()
installTruffleHdWalletProvider ==
  Settled("installTruffleHdWalletProvider", "installTruffleHdWalletProvider",
          {"installed", "failed"}, {"installed"}, "validate", {}, "")

OZContractValidated == [isExistedOnDisk : BOOLEAN, isHashValid : BOOLEAN]

\* Results OpenZeppelinService.validateContracts() may return.
ValidationResults ==
  UNION { [1..n -> OZContractValidated] : n \in 0..MaxContracts }

\* validatedContracts.filter(c => !c.isExistedOnDisk || !c.isHashValid)
invalidContractsPathsAccepting(validatedContracts) ==
  SelectSeq(validatedContracts, LAMBDA c : ~c.isExistedOnDisk /\ ~c.isHashValid)

invalidContractsPaths(validatedContracts) ==
  SelectSeq(validatedContracts, LAMBDA c : ~c.isExistedOnDisk \/ ~c.isHashValid)

\* What validatedContracts.forEach writes to the output channel, summed up:
\* a 'not existed on disk' line, else an 'invalid hash' line, else neither.
OutputLines(validatedContracts) ==
  IF \E i \in 1..Len(validatedContracts) :
       ~validatedContracts[i].isExistedOnDisk
    THEN "contractNotExistedOnDisk"
  ELSE IF \E i \in 1..Len(validatedContracts) :
            ~validatedContracts[i].isHashValid
    THEN "invalidHashMessage"
  ELSE "valid"

\* await OpenZeppelinService.validateContracts() has settled: a rejection
\* reaches tryExecute; otherwise the lines are written and, with an invalid
\* contract, the error is shown and thrown.
validateOpenZeppelinContracts ==
  /\ pc = "validate"
  /\ \/ /\ log' = Append(log, Call("validateContracts", "failed"))
        /\ Throw("error")
     \/ \E validatedContracts \in ValidationResults :
          LET lines == Call("validateContracts", OutputLines(validatedContracts))
          IN  IF Len(invalidContractsPaths(validatedContracts)) # 0
                THEN /\ log' = log \o << lines,
                                         Call("showErrorMessage", "openZeppelin") >>
                     /\ Throw("error")
                ELSE /\ log' = Append(log, lines)
                     /\ pc' = "runCommand"
                     /\ err' = err
  /\ UNCHANGED <<keyVars, config, tree, dests, command, cmd, deployDestination, queue, pending,
                 shown2, project>>

\* await command.cmd()
RunCommand ==
  /\ pc = "runCommand"
  /\ cmd' = command.cmd
  /\ pc' = command.cmd.fn
  /\ UNCHANGED <<keyVars, config, tree, dests, command, err, log, deployDestination,
                 queue, pending, shown2, project>>

\* Telemetry.sendEvent('TruffleCommands.deployContracts.commandFinished')
CommandFinished ==
  /\ pc = "returned"
  /\ log' = Append(log, Call("commandFinished", ""))
  /\ pc' = "done"
  /\ UNCHANGED <<keyVars, config, tree, dests, command, cmd, err, deployDestination,
                 queue, pending, shown2, project>>

\* The catch block without the test for CancellationEvent.
tryExecuteAnyError ==
  /\ pc = "catch"
  /\ log' = Append(log, Call("showErrorMessage", "tryExecute"))
  /\ pc' = "done"
  /\ UNCHANGED <<keyVars, config, tree, dests, command, cmd, err, deployDestination,
                 queue, pending, shown2, project>>

\* catch (error) { if (error instanceof CancellationEvent) return; showErrorMessage(...) }
tryExecute ==
  /\ pc = "catch"
  /\ log' = IF err = "cancel" THEN log
            ELSE Append(log, Call("showErrorMessage", "tryExecute"))
  /\ pc' = "done"
  /\ UNCHANGED <<keyVars, config, tree, dests, command, cmd, err, deployDestination,
                 queue, pending, shown2, project>>

-----------------------------------------------------------------------------
(* The deployment strategies *)

\* networkNode.getTruffleNetwork()
getTruffleNetwork(networkNode) ==
  Network(networkNode.truffleName, TRUE, networkNode.rpc, <<>>, 0,
          networkNode.networkId)

\* truffleConfig.setNetworks(network): the entry named network.name is
\* written, replacing one of that name.
setNetworks(networks, network) ==
  IF \E i \in 1..Len(networks) : networks[i].name = network.name
    THEN [i \in 1..Len(networks) |->
            IF networks[i].name = network.name THEN network ELSE networks[i]]
    ELSE Append(networks, network)

\* helpers.showConfirmPaidOperationDialog(): returns when the user confirms
\* and raises a CancellationEvent otherwise.  The result is the exception.
showConfirmPaidOperationDialog(confirmed) ==
  IF confirmed THEN "none" ELSE "cancel"

\* await showConfirmPaidOperationDialog(); await deployToNetwork(name, path)
deployToMainNetwork ==
  /\ pc = "deployToMainNetwork"
  /\ \E confirmed \in BOOLEAN :
       LET thrown == showConfirmPaidOperationDialog(confirmed)
           shown == Call("showConfirmPaidOperationDialog",
                         IF confirmed THEN "yes" ELSE "no")
       IN  IF thrown = "none"
             THEN /\ log' = Append(log, shown)
                  /\ pc' = "deployToNetwork"
                  /\ err' = err
             ELSE /\ log' = Append(log, shown)
                  /\ Throw(thrown)
  /\ UNCHANGED <<keyVars, config, tree, dests, command, cmd, deployDestination, queue, pending,
                 shown2, project>>

\* port = getPortFromUrl(url); await GanacheService.startGanacheServer(port);
\* await deployToNetwork(name, path)
deployToLocalGanache ==
  /\ pc = "deployToLocalGanache"
  /\ \E started \in BOOLEAN :
       IF started
         THEN /\ log' = Append(log, Call("startGanacheServer", "started"))
              /\ pc' = "deployToNetwork"
              /\ err' = err
         ELSE /\ log' = Append(log, Call("startGanacheServer", "failed"))
              /\ Throw("error")
  /\ UNCHANGED <<keyVars, config, tree, dests, command, cmd, deployDestination, queue, pending,
                 shown2, project>>

\* await GanacheService.startGanacheServer(node.port); await createNetwork(node, path)
createLocalGanacheNetwork ==
  /\ pc = "createLocalGanacheNetwork"
  /\ \E started \in BOOLEAN :
       IF started
         THEN /\ log' = Append(log, Call("startGanacheServer", "started"))
              /\ pc' = "createNetwork"
              /\ err' = err
         ELSE /\ log' = Append(log, Call("startGanacheServer", "failed"))
              /\ Throw("error")
  /\ UNCHANGED <<keyVars, config, tree, dests, command, cmd, deployDestination, queue, pending,
                 shown2, project>>

\* The network is deployed to without being written to the configuration.
createNetworkUnregistered ==
  /\ pc = "createNetwork"
  /\ \E outcome \in {"written", "getTruffleNetwork", "setNetworks"} :
       LET network == getTruffleNetwork(cmd.node)
       IN  IF outcome = "written"
             THEN /\ config' = config
                  /\ log' = log
                  /\ cmd' = Bind("deployToNetwork", network.name, <<>>, NoNode)
                  /\ pc' = "deployToNetwork"
                  /\ err' = err
             ELSE /\ config' = config
                  /\ log' = Append(log, Call(outcome, "failed"))
                  /\ cmd' = cmd
                  /\ Throw("error")
  /\ UNCHANGED <<keyVars, tree, dests, command, deployDestination, queue, pending, shown2,
                 project>>

\* network = await node.getTruffleNetwork() has settled.  A rejection reaches
\* the caller.  Otherwise, with no await in between, the configuration is
\* opened, setNetworks(network) is called (it may throw) and
\* deployToNetwork(network.name, path) is called, which waits for ensureDir.
createNetwork ==
  /\ pc = "createNetwork"
  /\ \E outcome \in {"written", "getTruffleNetwork", "setNetworks"} :
       LET network == getTruffleNetwork(cmd.node)
       IN  IF outcome = "written"
             THEN /\ config' = setNetworks(config, network)
                  /\ log' = Append(log, Call("setNetworks", network.name))
                  /\ cmd' = Bind("deployToNetwork", network.name, <<>>, NoNode)
                  /\ pc' = "deployToNetwork"
                  /\ err' = err
             ELSE /\ config' = config
                  /\ log' = Append(log, Call(outcome, "failed"))
                  /\ cmd' = cmd
                  /\ Throw("error")
  /\ UNCHANGED <<keyVars, tree, dests, command, deployDestination, queue, pending, shown2,
                 project>>

\* await fs.ensureDir(workspaceRoot) has settled: the command starts
\* executeCommand(root, 'npx', 'truffle', 'migrate', '--reset', '--network',
\* name) and waits for the process.
deployToNetwork ==
  /\ pc = "deployToNetwork"
  /\ \E dirOk \in BOOLEAN :
       IF dirOk
         THEN /\ log' = log \o << Call("ensureDir", ""), Call("migrate", cmd.name) >>
              /\ pc' = "migrating"
              /\ err' = err
         ELSE /\ log' = Append(log, Call("ensureDir", "failed"))
              /\ Throw("error")
  /\ UNCHANGED <<keyVars, config, tree, dests, command, cmd, deployDestination, queue, pending,
                 shown2, project>>

\* The contract database is refreshed whatever the exit of the process.
migrateExitedAlwaysUpdate ==
  /\ pc = "migrating"
  /\ \E succeeded \in BOOLEAN :
       log' = Append(log, Call("migrateExit", IF succeeded THEN "ok" ELSE "failed"))
  /\ pc' = "updateContracts"
  /\ UNCHANGED <<keyVars, config, tree, dests, command, cmd, err, deployDestination,
                 queue, pending, shown2, project>>

\* await executeCommand(...) has settled: a failed migrate reaches the
\* caller; after a successful one the command calls
\* ContractDB.updateContracts() and waits.
migrateExited ==
  /\ pc = "migrating"
  /\ \E succeeded \in BOOLEAN :
       IF succeeded
         THEN /\ log' = Append(log, Call("migrateExit", "ok"))
              /\ pc' = "updateContracts"
              /\ err' = err
         ELSE /\ log' = Append(log, Call("migrateExit", "failed"))
              /\ Throw("error")
  /\ UNCHANGED <<keyVars, config, tree, dests, command, cmd, deployDestination, queue, pending,
                 shown2, project>>

\* await ContractDB.updateContracts() has settled: the strategy returns, or
\* the rejection reaches the caller.
updateContracts ==
  /\ pc = "updateContracts"
  /\ \E updated \in BOOLEAN :
       IF updated
         THEN /\ log' = Append(log, Call("updateContracts", "updated"))
              /\ pc' = "returned"
              /\ err' = err
         ELSE /\ log' = Append(log, Call("updateContracts", "failed"))
              /\ Throw("error")
  /\ UNCHANGED <<keyVars, config, tree, dests, command, cmd, deployDestination, queue, pending,
                 shown2, project>>

-----------------------------------------------------------------------------
(* createNewDeploymentService and its promise continuations *)

Task(kind, node, left) == [kind |-> kind, node |-> node, left |-> left]

\* The callback of networks.map for one network, run up to its await: the
\* promise of getRPCAddress is settled already (ticks = 0) or settles after
\* ticks further turns of the job queue.  A promise that waits for
\* input/output is kept in pending instead and settles in a later task.
MapCallback(network, ticks) ==
  IF ticks = 0 THEN Task("push", network, 0) ELSE Task("rpc", network, ticks)

\* project = await connectProject(); networks = children.filter(NetworkNode);
\* await networks.map(async (network) => {...})
\* The awaited value is the array of promises, not the promises: the
\* function resumes on the next turn of the job queue.
createNewDeploymentService ==
  /\ pc = "createNewDeploymentService"
  /\ \/ /\ Throw("cancel")
        /\ log' = Append(log, Call("connectProject", "cancelled"))
        /\ UNCHANGED <<project, queue, pending>>
     \/ /\ Throw("error")
        /\ log' = Append(log, Call("connectProject", "failed"))
        /\ UNCHANGED <<project, queue, pending>>
     \/ \E p \in ProjectPool :
          LET networks == FilterNetworkNodes(p)
          IN  \E io \in SUBSET (1..Len(networks)),
                 ticks \in [1..Len(networks) -> 0..MaxRpcTicks] :
                LET inQueue == SelectSeq([i \in 1..Len(networks) |-> i],
                                         LAMBDA i : i \notin io)
                IN  /\ project' = p
                    /\ queue' = [k \in 1..Len(inQueue) |->
                                   MapCallback(networks[inQueue[k]],
                                               ticks[inQueue[k]])]
                                  \o << Task("resume", NoNode, 0) >>
                    /\ pending' = {networks[i] : i \in io}
                /\ log' = Append(log, Call("connectProject", "connected"))
                /\ pc' = "awaitMap"
                /\ err' = err
  /\ deployDestination' = <<>>
  /\ UNCHANGED <<keyVars, config, tree, dests, command, cmd, shown2>>

\* One job of the promise job queue runs.
RunMicrotask ==
  /\ queue # <<>>
  /\ LET task == Head(queue)
     IN  \/ /\ task.kind = "rpc"
            /\ queue' = Append(Tail(queue),
                               IF task.left = 1
                                 THEN Task("push", task.node, 0)
                                 ELSE Task("rpc", task.node, task.left - 1))
            /\ UNCHANGED <<deployDestination, shown2, log, pc>>
         \/ /\ task.kind = "push"
            /\ deployDestination' =
                 Append(deployDestination,
                        TreeDestination(Bind("createNetwork", "", <<>>, task.node),
                                        task.node))
            /\ queue' = Tail(queue)
            /\ UNCHANGED <<shown2, log, pc>>
         \/ /\ task.kind = "resume"
            /\ shown2' = deployDestination
            /\ log' = Append(log, Call("showQuickPick", "second"))
            /\ pc' = "pick2"
            /\ queue' = Tail(queue)
            /\ UNCHANGED deployDestination
  /\ UNCHANGED <<keyVars, config, tree, dests, command, cmd, err, project, pending>>

\* A getRPCAddress that waited for input/output settles: the callback of
\* networks.map resumes after its await and pushes the destination.  This
\* is a task of its own, run when the job queue is empty, at whatever
\* position the command has reached, also after it returned.
getRPCAddressSettled ==
  /\ queue = <<>>
  /\ \E network \in pending :
       /\ pending' = pending \ {network}
       /\ deployDestination' =
            Append(deployDestination,
                   TreeDestination(Bind("createNetwork", "", <<>>, network),
                                   network))
  /\ UNCHANGED <<keyVars, pc, config, tree, dests, command, cmd, err, log, queue,
                 shown2, project>>

\* The user selects an item of the second quick pick: await command.cmd()
\* The answer is a task of its own: the job queue is empty by then, promises
\* that wait for input/output may still be pending.
PickCreated ==
  /\ pc = "pick2"
  /\ queue = <<>>
  /\ \E i \in 1..Len(shown2) :
       /\ cmd' = shown2[i].cmd
       /\ log' = Append(log, Call("createNewDeploymentService.selectedDestination",
                                   shown2[i].label))
  /\ pc' = "createNetwork"
  /\ UNCHANGED <<keyVars, config, tree, dests, command, err, deployDestination,
                 queue, pending, shown2, project>>

CancelCreated ==
  /\ pc = "pick2"
  /\ queue = <<>>
  /\ Throw("cancel")
  /\ UNCHANGED <<keyVars, config, tree, dests, command, cmd, log, deployDestination,
                 queue, pending, shown2, project>>

-----------------------------------------------------------------------------
(* Other command callbacks.  Every command is registered as a callback of  *)
(* its own and nothing makes one wait for another: before this invocation  *)
(* starts, after it has ended and while it waits for input/output or for   *)
(* the user, with no promise job left to run, another callback may run.    *)
(* Of the state this invocation reads, the others change the service tree  *)
(* and the truffle configuration.                                          *)

OtherCallbackMayRun ==
  /\ pc \notin {"runCommand", "returned", "catch"}
  /\ queue = <<>>

\* azureBlockchainService.connectProject adds a service to the tree.
connectProject ==
  /\ OtherCallbackMayRun
  /\ Len(tree) < MaxServices
  /\ \E i \in 1..Len(ServicePool) :
       /\ \A k \in 1..Len(tree) : tree[k] # ServicePool[i]
       /\ tree' = Append(tree, ServicePool[i])
  /\ UNCHANGED <<keyVars, pc, config, dests, command, cmd, err, log, deployDestination,
                 queue, pending, shown2, project>>

\* azureBlockchainService.disconnectProject removes a service from the tree.
disconnectProject ==
  /\ OtherCallbackMayRun
  /\ \E i \in 1..Len(tree) :
       tree' = SubSeq(tree, 1, i - 1) \o SubSeq(tree, i + 1, Len(tree))
  /\ UNCHANGED <<keyVars, pc, config, dests, command, cmd, err, log, deployDestination,
                 queue, pending, shown2, project>>

\* The NetworkNodes another invocation may have selected a destination for:
\* those of the services the tree may hold and of the projects connectProject
\* may return.
NetworkNodes ==
  LET Range(xs) == { xs[i] : i \in 1..Len(xs) }
      children == UNION ({ Range(Flatten(ServicePool[s])) : s \in 1..Len(ServicePool) }
                         \cup { Range(p) : p \in ProjectPool })
  IN  { child \in children : IsNetworkNode(child) }

\* Another invocation of deployContracts reaches createNetwork for the node
\* selected there: its getTruffleNetwork has settled and setNetworks writes
\* the network to the configuration.
otherCreateNetwork ==
  /\ OtherCallbackMayRun
  /\ \E networkNode \in NetworkNodes :
       config' = setNetworks(config, getTruffleNetwork(networkNode))
  /\ UNCHANGED <<keyVars, pc, tree, dests, command, cmd, err, log, deployDestination,
                 queue, pending, shown2, project>>

-----------------------------------------------------------------------------

Next ==
  \/ connectProject
  \/ disconnectProject
  \/ otherCreateNetwork
  \/ DeployContracts
  \/ ShowDestinations
  \/ PickDestination
  \/ CancelPick
  \/ CheckTruffle
  \/ installTruffle
  \/ CheckHdWallet
  \/ checkHdWalletProviderVersion
  \/ installTruffleHdWalletProvider
  \/ validateOpenZeppelinContracts
  \/ RunCommand
  \/ deployToMainNetwork
  \/ deployToLocalGanache
  \/ createLocalGanacheNetwork
  \/ createNetwork
  \/ deployToNetwork
  \/ migrateExited
  \/ updateContracts
  \/ createNewDeploymentService
  \/ RunMicrotask
  \/ getRPCAddressSettled
  \/ PickCreated
  \/ CancelCreated
  \/ CommandFinished
  \/ tryExecute

Spec == Init /\ [][Next]_vars

-----------------------------------------------------------------------------
(* The commands that write the clipboard.  Each is registered as its own  *)
(* callback, await tryExecute(() => ...), and nothing makes one wait for    *)
(* another: while one waits at an await the others may be invoked and run.  *)
(* pc, log, err and mnemonicItem follow one invocation of                   *)
(* getPrivateKeyFromMnemonic; calls holds the other invocations in flight.  *)

deployVars == <<config, tree, dests, command, cmd, deployDestination, queue, pending,
                shown2, project>>

\* The command up to the quick pick: without stored mnemonics it shows an
\* error and returns, otherwise it shows the stored mnemonics.
getPrivateKeyFromMnemonic ==
  /\ pc = "idle"
  /\ IF Len(MnemonicItems(mnemonics)) = 0
       THEN /\ log' = << Call("commandStarted", "getPrivateKeyFromMnemonic"),
                         Call("showErrorMessage", "ThereAreNoMnemonics") >>
            /\ pc' = "done"
       ELSE /\ log' = << Call("commandStarted", "getPrivateKeyFromMnemonic"),
                         Call("showQuickPick", "mnemonic") >>
            /\ pc' = "pickMnemonic"
  /\ UNCHANGED <<deployVars, keyVars, err>>

\* The user selects a mnemonic; if (!mnemonic) the command shows an error
\* and returns, otherwise it calls bip39.mnemonicToSeed and waits.
PickMnemonic ==
  /\ pc = "pickMnemonic"
  /\ \E i \in 1..Len(MnemonicItems(mnemonics)) :
       LET item == MnemonicItems(mnemonics)[i]
       IN  /\ mnemonicItem' = item
           /\ IF item.extended = ""
                THEN /\ log' = Append(log, Call("showErrorMessage",
                                                "MnemonicFileHaveNoText"))
                     /\ pc' = "done"
                ELSE /\ log' = log
                     /\ pc' = "deriveKey"
  /\ UNCHANGED <<deployVars, mnemonics, clipboard, calls, err>>

\* The user dismisses the quick pick: showQuickPick raises a CancellationEvent.
CancelMnemonicPick ==
  /\ pc = "pickMnemonic"
  /\ Throw("cancel")
  /\ UNCHANGED <<deployVars, keyVars, log>>

\* The derivation without the catch: a failure reaches the caller.
deriveKeyUncaught ==
  /\ pc = "deriveKey"
  /\ \E derived \in BOOLEAN :
       IF derived
         THEN /\ log' = Append(log, Call("deriveKey", "ok"))
              /\ pc' = "writeToClipboard"
              /\ err' = err
         ELSE /\ log' = Append(log, Call("deriveKey", "failed"))
              /\ Throw("error")
  /\ UNCHANGED <<deployVars, keyVars>>

\* try { buffer = await mnemonicToSeed(mnemonic); key; childKey; privateKey;
\*       writeToClipboard(privateKey) ... } catch { showErrorMessage }
\* mnemonicToSeed has settled: the key is derived and the command calls
\* writeToClipboard and waits, or the derivation fails, the catch shows
\* InvalidMnemonic and the command finishes.
deriveKey ==
  /\ pc = "deriveKey"
  /\ \E derived \in BOOLEAN :
       IF derived
         THEN /\ log' = Append(log, Call("deriveKey", "ok"))
              /\ pc' = "writeToClipboard"
         ELSE /\ log' = log \o << Call("deriveKey", "failed"),
                                  Call("showErrorMessage", "InvalidMnemonic"),
                                  Call("commandFinished", "") >>
              /\ pc' = "done"
  /\ UNCHANGED <<deployVars, keyVars, err>>

\* await writeToClipboard(privateKey) has settled: the key is on the
\* clipboard and a message is shown, or the write failed and the catch shows
\* InvalidMnemonic; then commandFinished.
writePrivateKey ==
  /\ pc = "writeToClipboard"
  /\ \E written \in BOOLEAN :
       IF written
         THEN /\ clipboard' = PrivateKey(mnemonicItem.extended)
              /\ log' = log \o << Call("writeToClipboard", "written"),
                                  Call("showInformationMessage", ""),
                                  Call("commandFinished", "") >>
         ELSE /\ clipboard' = clipboard
              /\ log' = log \o << Call("writeToClipboard", "failed"),
                                  Call("showErrorMessage", "InvalidMnemonic"),
                                  Call("commandFinished", "") >>
  /\ pc' = "done"
  /\ UNCHANGED <<deployVars, mnemonics, mnemonicItem, calls, err>>

\* The command has returned to the editor, which may invoke it again: the
\* locals of the call are gone, the clipboard and the mnemonics stay.
CommandReturned ==
  /\ pc = "done"
  /\ pc' = "idle"
  /\ log' = <<>>
  /\ err' = "none"
  /\ mnemonicItem' = NoItem
  /\ UNCHANGED <<deployVars, mnemonics, clipboard, calls>>

-----------------------------------------------------------------------------
(* The other invocations: what each waits for and the value it holds *)

Invocation(commandName, waitsFor, value) ==
  [command |-> commandName, waitsFor |-> waitsFor, value |-> value]

\* The invocations in flight without the i-th, which has returned.
Returned(invocations, i) ==
  SubSeq(invocations, 1, i - 1) \o SubSeq(invocations, i + 1, Len(invocations))

Uri(name, ext) == [name |-> name, ext |-> ext]

\* Files the contract commands may be invoked on.
Uris == { Uri("Token", ".json"), Uri("Token", ".sol"), Uri("notes", ".txt") }

NoContract == [abi |-> <<>>, bytecode |-> <<>>]

\* The compiled contract of a file: JSON.stringify(contract.abi) and
\* contract.bytecode.
CompiledContract(uri) ==
  [abi |-> <<"abi", uri.name>>, bytecode |-> <<"bytecode", uri.name>>]

\* readCompiledContract(uri): an Error unless the extension is .json; then
\* readFileSync and JSON.parse, which may fail (parsed = FALSE).  NoContract
\* stands for the exception.
readCompiledContract(uri, parsed) ==
  IF uri.ext # ".json" \/ ~parsed THEN NoContract ELSE CompiledContract(uri)

\* A contract command is invoked: it reads the file, calls writeToClipboard
\* and waits.  A failure to read reaches tryExecute, which shows the error,
\* and the invocation is over.
WriteContractToBuffer(commandName, property) ==
  /\ Len(calls) < MaxCalls
  /\ \E uri \in Uris, parsed \in BOOLEAN :
       LET contract == readCompiledContract(uri, parsed)
       IN  calls' = IF contract = NoContract THEN calls
                    ELSE Append(calls, Invocation(commandName, "writeToClipboard",
                                                  contract[property]))
  /\ UNCHANGED <<deployVars, pc, err, log, mnemonics, mnemonicItem, clipboard>>

writeAbiToBuffer == WriteContractToBuffer("writeAbiToBuffer", "abi")

writeBytecodeToBuffer == WriteContractToBuffer("writeBytecodeToBuffer", "bytecode")

\* Project.getRPCAddress(): the address of the first NetworkNode among the
\* children, '' without one.
getRPCAddress(children) ==
  LET networkNodes == FilterNetworkNodes(children)
  IN  IF Len(networkNodes) = 0 THEN <<>> ELSE networkNodes[1].rpc

\* The command is invoked on a project: it calls getRPCAddress and waits.
writeRPCEndpointAddressToBuffer ==
  /\ Len(calls) < MaxCalls
  /\ \E children \in ProjectPool :
       calls' = Append(calls, Invocation("writeRPCEndpointAddressToBuffer",
                                         "getRPCAddress", getRPCAddress(children)))
  /\ UNCHANGED <<deployVars, pc, err, log, mnemonics, mnemonicItem, clipboard>>

\* getRPCAddress has settled: if (rpcEndpointAddress) the command calls
\* writeToClipboard and waits, otherwise it returns; a rejection reaches
\* tryExecute.
rpcEndpointAddressSettled ==
  /\ \E i \in 1..Len(calls), resolved \in BOOLEAN :
       /\ calls[i].waitsFor = "getRPCAddress"
       /\ calls' = IF resolved /\ calls[i].value # <<>>
                     THEN [calls EXCEPT ![i].waitsFor = "writeToClipboard"]
                     ELSE Returned(calls, i)
  /\ UNCHANGED <<deployVars, pc, err, log, mnemonics, mnemonicItem, clipboard>>

\* getPrivateKeyFromMnemonic is invoked once more, beside the invocation pc
\* follows: without stored mnemonics it shows an error and returns,
\* otherwise it opens its quick pick and waits.
getPrivateKeyFromMnemonicAgain ==
  /\ Len(calls) < MaxCalls
  /\ calls' = IF Len(MnemonicItems(mnemonics)) = 0 THEN calls
              ELSE Append(calls, Invocation("getPrivateKeyFromMnemonic",
                                            "showQuickPick", <<>>))
  /\ UNCHANGED <<deployVars, pc, err, log, mnemonics, mnemonicItem, clipboard>>

\* Its quick pick is answered: dismissed (CancellationEvent, swallowed by
\* tryExecute) or an empty mnemonic (error shown) end the invocation,
\* otherwise it calls mnemonicToSeed and waits.
quickPickSettled ==
  /\ \E i \in 1..Len(calls) :
       /\ calls[i].waitsFor = "showQuickPick"
       /\ \/ calls' = Returned(calls, i)
          \/ \E k \in 1..Len(MnemonicItems(mnemonics)) :
               LET item == MnemonicItems(mnemonics)[k]
               IN  calls' = IF item.extended = "" THEN Returned(calls, i)
                            ELSE [calls EXCEPT ![i] =
                                    Invocation("getPrivateKeyFromMnemonic",
                                               "mnemonicToSeed", <<item.extended>>)]
  /\ UNCHANGED <<deployVars, pc, err, log, mnemonics, mnemonicItem, clipboard>>

\* Its mnemonicToSeed has settled: with the key derived it calls
\* writeToClipboard and waits, otherwise the catch shows InvalidMnemonic and
\* the invocation is over.
mnemonicToSeedSettled ==
  /\ \E i \in 1..Len(calls), derived \in BOOLEAN :
       /\ calls[i].waitsFor = "mnemonicToSeed"
       /\ calls' = IF derived
                     THEN [calls EXCEPT ![i] =
                             Invocation("getPrivateKeyFromMnemonic", "writeToClipboard",
                                        PrivateKey(calls[i].value[1]))]
                     ELSE Returned(calls, i)
  /\ UNCHANGED <<deployVars, pc, err, log, mnemonics, mnemonicItem, clipboard>>

\* A writeToClipboard of another invocation has settled, in whatever order
\* the writes in flight settle: the text is on the clipboard, or the write
\* failed; the invocation then shows its message and returns.
writeToClipboardSettled ==
  /\ \E i \in 1..Len(calls), written \in BOOLEAN :
       /\ calls[i].waitsFor = "writeToClipboard"
       /\ clipboard' = IF written THEN calls[i].value ELSE clipboard
       /\ calls' = Returned(calls, i)
  /\ UNCHANGED <<deployVars, pc, err, log, mnemonics, mnemonicItem>>

\* The mnemonic repository holds up to MaxMnemonics mnemonics.
InitKey ==
  /\ pc = "idle"
  /\ config = <<>>
  /\ tree = <<>>
  /\ dests = <<>>
  /\ command = NoDestination
  /\ cmd = NoCmd
  /\ err = "none"
  /\ log = <<>>
  /\ deployDestination = <<>>
  /\ queue = <<>>
  /\ pending = {}
  /\ shown2 = <<>>
  /\ project = <<>>
  /\ mnemonics \in UNION { [1..n -> MnemonicTexts] : n \in 0..MaxMnemonics }
  /\ mnemonicItem = NoItem
  /\ clipboard = NoClip
  /\ calls = <<>>

NextKey ==
  \/ getPrivateKeyFromMnemonic
  \/ PickMnemonic
  \/ CancelMnemonicPick
  \/ deriveKey
  \/ writePrivateKey
  \/ CommandReturned
  \/ tryExecute
  \/ writeAbiToBuffer
  \/ writeBytecodeToBuffer
  \/ writeRPCEndpointAddressToBuffer
  \/ rpcEndpointAddressSettled
  \/ getPrivateKeyFromMnemonicAgain
  \/ quickPickSettled
  \/ mnemonicToSeedSettled
  \/ writeToClipboardSettled

SpecKey == InitKey /\ [][NextKey]_vars

-----------------------------------------------------------------------------
(* Vocabulary of the properties *)

FromConfig(d) == d.detail = "From truffle-config.js"
FromTree(d) == d.detail = "Tree Item"
IsCreateProject(d) == d.label = "createProject" /\ d.detail = ""

ConfirmAccepted == Call("showConfirmPaidOperationDialog", "yes")
ConfirmDeclined == Call("showConfirmPaidOperationDialog", "no")

LoggedCall(c) == \E i \in 1..Len(log) : log[i] = c

\* Every migrate in the log has the call c somewhere before it.
MigrateOnlyAfter(c) ==
  \A i \in 1..Len(log) :
    log[i].ev = "migrate" => \E j \in 1..(i - 1) : log[j] = c

\* The text 127.0.0.1:<default local port>.
LocalAddress ==
  <<"1", "2", "7", ".", "0", ".", "0", ".", "1", ":">>
    \o NumToStr(defaultLocalhostPort)

\* s contains the text LocalAddress.
ContainsLocalAddress(s) ==
  \E i \in 1..Len(s) :
    /\ i + Len(LocalAddress) - 1 <= Len(s)
    /\ \A j \in 1..Len(LocalAddress) :
         s[i + j - 1] = LocalAddress[j]

-----------------------------------------------------------------------------
\* C1: whenever the selected destination has network id 1 or '1', a migrate
\* is started only after the paid-operation dialog was shown and accepted,
\* and never once the dialog was declined.
C1_ConfirmForEveryMainId ==
  IsMainNetworkId(command.networkId) =>
    /\ MigrateOnlyAfter(ConfirmAccepted)
    /\ LoggedCall(ConfirmDeclined) => ~Logged("migrate")

-----------------------------------------------------------------------------
\* C2: no two destinations handed to the quick pick have the same URL
\* (description).
C2_NoDuplicateUrls ==
  pc = "pick" =>
    \A i, j \in 1..Len(dests) :
      i # j => dests[i].description # dests[j].description

-----------------------------------------------------------------------------
\* Positions <<service, project, child>> of the NetworkNodes of the tree.
TreeNodePositions ==
  { t \in UNION { UNION { { <<s, p, c>> : c \in 1..Len(tree[s][p]) } :
                          p \in 1..Len(tree[s]) } : s \in 1..Len(tree) } :
      IsNetworkNode(tree[t[1]][t[2]][t[3]]) }

PositionBefore(t, u) ==
  \/ t[1] < u[1]
  \/ t[1] = u[1] /\ t[2] < u[2]
  \/ t[1] = u[1] /\ t[2] = u[2] /\ t[3] < u[3]

PositionRank(t) == Cardinality({u \in TreeNodePositions : PositionBefore(u, t)}) + 1

\* The list is the 'create project' entry, one entry per network of
\* networksFromConfig in order, one entry per NetworkNode of the tree in tree
\* order, and nothing else.
IsMergeOf(list, networksFromConfig) ==
  /\ Len(list) = 1 + Len(networksFromConfig) + Cardinality(TreeNodePositions)
  /\ IsCreateProject(list[1])
  /\ list[1].networkId = StrId("*")
  /\ \A i \in 1..Len(networksFromConfig) :
       /\ FromConfig(list[1 + i])
       /\ list[1 + i].label = networksFromConfig[i].name
  /\ \A t \in TreeNodePositions :
       LET d == list[1 + Len(networksFromConfig) + PositionRank(t)]
           node == tree[t[1]][t[2]][t[3]]
       IN  /\ FromTree(d)
           /\ d.label = node.label
           /\ d.description = node.rpc

-----------------------------------------------------------------------------
\* C4: every destination built from the configuration has the provider URL
\* when present, else host[:port], as its URL, and runs the local-chain
\* strategy if that URL contains 127.0.0.1:<default local port>, otherwise
\* the production strategy if its network id is 1 or '1', otherwise the
\* plain remote strategy.
C4_Classification ==
  [][(pc = "idle" /\ pc' = "getTreeDeployDestinations") =>
       \A i \in 1..Len(config) :
         LET d == dests'[1 + i]
             options == config[i].options
             url == IF /\ options.hasProvider
                       /\ options.providerUrl \notin {<<>>, Undefined}
                      THEN options.providerUrl
                    ELSE IF options.port # 0
                      THEN options.host \o <<":">> \o NumToStr(options.port)
                    ELSE options.host
         IN  /\ d.description = url
             /\ d.cmd.name = config[i].name
             /\ d.cmd.fn =
                  IF ContainsLocalAddress(url) THEN "deployToLocalGanache"
                  ELSE IF options.network_id.text = "1" THEN "deployToMainNetwork"
                  ELSE "deployToNetwork"]_vars

-----------------------------------------------------------------------------
\* C5: when the second quick pick is shown, its list holds one entry for
\* every NetworkNode of the project just connected.
C5_ListCompleteWhenShown ==
  pc = "pick2" => Len(shown2) = Len(FilterNetworkNodes(project))

-----------------------------------------------------------------------------
GanacheStarted == Call("startGanacheServer", "started")
GanacheFailed == Call("startGanacheServer", "failed")

\* A destination the code classifies as local chain: a configuration network
\* whose URL the local-chain pattern matches, or a LocalNetworkNode of the
\* tree on the default port.
IsLocalChain(d) ==
  \/ FromConfig(d) /\ RegExpMatch(d.description, localGanacheRegexp)
  \/ /\ FromTree(d)
     /\ d.cmd.node.itemType = LOCAL_NETWORK_NODE
     /\ d.cmd.node.port = defaultLocalhostPort

\* The destination selected in the second quick pick is a LocalNetworkNode
\* of the connected project on the default port.
LocalChainCreated ==
  \E i \in 1..Len(project) :
    /\ IsLocalNetworkNode(project[i])
    /\ project[i].port = defaultLocalhostPort
    /\ LoggedCall(Call("createNewDeploymentService.selectedDestination",
                       project[i].label))

\* C6: for a local-chain destination, selected in the first quick pick or
\* in the one of the 'create project' path, a migrate is started only after
\* the local chain server was started, and never once its start failed.
C6_GanacheBeforeMigrate ==
  ( IsLocalChain(command) \/ LocalChainCreated ) =>
    /\ MigrateOnlyAfter(GanacheStarted)
    /\ LoggedCall(GanacheFailed) => ~Logged("migrate")

-----------------------------------------------------------------------------
\* Calls made by the selected destination's command.
CommandEvents ==
  { "connectProject", "createNewDeploymentService.selectedDestination",
    "showConfirmPaidOperationDialog", "startGanacheServer", "getTruffleNetwork",
    "setNetworks", "ensureDir", "migrate", "migrateExit", "updateContracts" }

\* The call at position i of the log is directly preceded by the call c.
DirectlyAfter(i, c) == i > 1 /\ log[i - 1] = c

\* C7: the first call of the destination's command comes only after the truffle
\* check (and the install, when truffle is missing), then the HD wallet
\* provider check (and the install, when required and outdated), then a
\* validation that found every contract on disk with a valid hash; truffle
\* is installed only when found missing and the provider only when found
\* required and outdated; after a validation that found a missing or
\* invalid contract, or that failed, an error is in flight, the command made
\* no call and commandFinished was not sent.
C7_ChecksBeforeCommand ==
  /\ \A i \in 1..Len(log) :
       ( /\ log[i].ev \in CommandEvents
         /\ \A h \in 1..(i - 1) : log[h].ev \notin CommandEvents ) =>
         \E a \in 1..(i - 1) :
           /\ log[a].ev = "checkAppsSilent"
           /\ log[a].arg \in {"present", "missing"}
           /\ \E b \in (a + 1)..(i - 1) :
                /\ log[b].ev = "isHdWalletProviderRequired"
                /\ log[b].arg \in {"yes", "no"}
                /\ log[a].arg = "missing" =>
                     /\ a + 1 < b
                     /\ log[a + 1] = Call("installTruffle", "installed")
                /\ \E c \in (b + 1)..(i - 1) :
                     /\ log[c] = Call("validateContracts", "valid")
                     /\ log[b].arg = "yes" =>
                          /\ b + 1 < c
                          /\ log[b + 1].ev = "checkHdWalletProviderVersion"
                          /\ log[b + 1].arg \in {"ok", "outdated"}
                          /\ log[b + 1].arg = "outdated" =>
                               /\ b + 2 < c
                               /\ log[b + 2] =
                                    Call("installTruffleHdWalletProvider",
                                         "installed")
  /\ \A i \in 1..Len(log) :
       /\ log[i].ev = "installTruffle" =>
            DirectlyAfter(i, Call("checkAppsSilent", "missing"))
       /\ log[i].ev = "checkHdWalletProviderVersion" =>
            DirectlyAfter(i, Call("isHdWalletProviderRequired", "yes"))
       /\ log[i].ev = "installTruffleHdWalletProvider" =>
            DirectlyAfter(i, Call("checkHdWalletProviderVersion", "outdated"))
  /\ (\E k \in 1..Len(log) :
        log[k].ev = "validateContracts" /\ log[k].arg # "valid") =>
       /\ err = "error"
       /\ \A i \in 1..Len(log) : log[i].ev \notin CommandEvents
       /\ ~Logged("commandFinished")

C7_Witness ==
  /\ LoggedCall(Call("installTruffle", "installed"))
  /\ LoggedCall(Call("installTruffleHdWalletProvider", "installed"))
  /\ Logged("migrate")

-----------------------------------------------------------------------------
ErrorMessageShown == Call("showErrorMessage", "tryExecute")

\* The first quick pick was dismissed: a CancellationEvent is in flight or
\* was caught, and no destination was selected.
QuickPickCancelled ==
  /\ pc \in {"catch", "done"}
  /\ err = "cancel"
  /\ command = NoDestination

\* C8: after the first quick pick was cancelled the only calls made are the
\* ones that led to the quick pick (no install, no validation, no
\* deployment), and tryExecute shows no error message; a command that ended
\* on a CancellationEvent shows none either, and one that ended on any other
\* error, before or after the quick pick, ends with tryExecute's error
\* message.
C8_CancelIsSilent ==
  /\ QuickPickCancelled =>
       log = << Call("commandStarted", ""), Call("showQuickPick", "") >>
  /\ (pc = "done" /\ err = "cancel") => ~LoggedCall(ErrorMessageShown)
  /\ (pc = "done" /\ err = "error") => log[Len(log)] = ErrorMessageShown

C8_Witness ==
  /\ pc = "done"
  /\ QuickPickCancelled

-----------------------------------------------------------------------------
\* A step of the command itself, as opposed to a step of another command.
CommandStep == pc' # pc \/ log' # log

\* C9: for a destination of the tree or of the 'create project' path every
\* migrate is started with a network name that a call of setNetworks was
\* made with before; while a destination of the configuration file is
\* deployed the command never calls setNetworks and none of its steps
\* changes the configuration.
C9_RegisterBeforeMigrate ==
  /\ [](( FromTree(command) \/ IsCreateProject(command) ) =>
          \A i \in 1..Len(log) :
            log[i].ev = "migrate" =>
              \E j \in 1..(i - 1) : log[j] = Call("setNetworks", log[i].arg))
  /\ [][(FromConfig(command) /\ CommandStep) => config' = config]_vars
  /\ [](FromConfig(command) => ~Logged("setNetworks"))

C9_Witness ==
  /\ FromTree(command)
  /\ Logged("setNetworks")
  /\ Logged("migrate")

-----------------------------------------------------------------------------
\* C10: ContractDB.updateContracts is called right after every migrate that
\* exits successfully and at no other time (not after a migrate that
\* failed, not without a migrate), and a command returns normally only
\* after that call has settled.
C10_UpdateAfterMigrate ==
  /\ \A i \in 1..Len(log) :
       log[i].ev = "updateContracts" =>
         DirectlyAfter(i, Call("migrateExit", "ok"))
  /\ pc = "updateContracts" =>
       Len(log) > 0 /\ log[Len(log)] = Call("migrateExit", "ok")
  /\ \A i \in 1..Len(log) :
       log[i] = Call("migrateExit", "ok") =>
         IF i = Len(log) THEN pc = "updateContracts"
         ELSE log[i + 1].ev = "updateContracts"
  /\ \A i \in 1..Len(log) :
       log[i].ev = "migrateExit" => i > 1 /\ log[i - 1].ev = "migrate"
  /\ pc = "returned" => log[Len(log)] = Call("updateContracts", "updated")
  /\ Logged("commandFinished") => LoggedCall(Call("updateContracts", "updated"))

C10_Witness ==
  /\ pc = "done"
  /\ LoggedCall(Call("migrateExit", "ok"))
  /\ LoggedCall(Call("updateContracts", "updated"))
  /\ Logged("commandFinished")

-----------------------------------------------------------------------------
NoMnemonicsError == Call("showErrorMessage", "ThereAreNoMnemonics")
NoTextError == Call("showErrorMessage", "MnemonicFileHaveNoText")
InvalidMnemonicError == Call("showErrorMessage", "InvalidMnemonic")

\* The command running is getPrivateKeyFromMnemonic.
KeyCommandRunning ==
  /\ log # <<>>
  /\ log[1] = Call("commandStarted", "getPrivateKeyFromMnemonic")

ClipboardWritten == Call("writeToClipboard", "written")

\* What holds whenever getPrivateKeyFromMnemonic is running or has just run.
KeyCommandOutcomes ==
  /\ LoggedCall(ClipboardWritten) =>
       /\ Len(mnemonics) >= 1
       /\ mnemonicItem.detail \in 1..Len(mnemonics)
       /\ mnemonics[mnemonicItem.detail] = mnemonicItem.extended
       /\ mnemonicItem.extended # ""
       /\ LoggedCall(Call("deriveKey", "ok"))
  /\ Len(mnemonics) = 0 =>
       /\ pc = "done"
       /\ log = << Call("commandStarted", "getPrivateKeyFromMnemonic"),
                   NoMnemonicsError >>
       /\ err = "none"
  /\ (mnemonicItem # NoItem /\ mnemonicItem.extended = "") =>
       /\ pc = "done"
       /\ log[Len(log)] = NoTextError
       /\ ~Logged("deriveKey")
       /\ err = "none"
       /\ ~Logged("writeToClipboard")
  /\ LoggedCall(Call("deriveKey", "failed")) =>
       /\ pc = "done"
       /\ LoggedCall(InvalidMnemonicError)
       /\ ~LoggedCall(ErrorMessageShown)
       /\ err = "none"
       /\ ~Logged("writeToClipboard")

\* A step of the invocation of getPrivateKeyFromMnemonic that pc and log
\* follow; the other invocations change neither.
KeyCommandStep == pc' # pc \/ log' # log

\* C11: whatever other commands run meanwhile, a step of
\* getPrivateKeyFromMnemonic writes the clipboard only when its
\* writeToClipboard settles, and then writes the private key of the selected
\* mnemonic; it makes that call only if a mnemonic is stored, the user
\* selected one, its text is not empty and its key was derived; with no
\* stored mnemonic the command shows an error and no quick pick; with an
\* empty mnemonic it shows an error; a failed derivation is reported as an
\* invalid mnemonic and no exception reaches tryExecute; in these three
\* outcomes the command does not write the clipboard.
C11_ClipboardOnlyOnSuccess ==
  /\ [](KeyCommandRunning => KeyCommandOutcomes)
  /\ [][(/\ KeyCommandStep
         /\ \/ clipboard' # clipboard
            \/ ~LoggedCall(ClipboardWritten) /\ LoggedCall(ClipboardWritten)') =>
          /\ pc = "writeToClipboard"
          /\ LoggedCall(Call("deriveKey", "ok"))
          /\ ~LoggedCall(ClipboardWritten)
          /\ LoggedCall(ClipboardWritten)'
          /\ clipboard' = PrivateKey(mnemonicItem.extended)]_vars

C11_Witness ==
  /\ pc = "done"
  /\ KeyCommandRunning
  /\ LoggedCall(ClipboardWritten)
  /\ Len(mnemonics) >= 2
  /\ mnemonicItem.detail = 2
  /\ clipboard = PrivateKey(mnemonicItem.extended)

====
